---- MODULE Spec2Model ----
(***************************************************************************)
(* A model of Aequilibrium: the BookKeeper portfolio arithmetic            *)
(* (src/src/aequilibrium/bookkeeper.py) and the fail-soft MarketData       *)
(* adapter (src/src/aequilibrium/market_data.py).                          *)
(*                                                                         *)
(* Numbers.  The vectors are numpy arrays of real numbers.  A number is    *)
(* modelled as an exact rational <<n, d>> in lowest terms with d > 0, so   *)
(* that equal numbers are equal values; np.nan is the extra value <<0, 0>>.*)
(* Floating-point rounding is not modelled: every arithmetic step is       *)
(* exact, and the properties below are the exact identities that the       *)
(* repository's tests assert up to a tolerance.                            *)
(***************************************************************************)
EXTENDS Integers, Sequences, FiniteSets, TLC

----------------------------------------------------------------------------
(* Bounds of the model. *)

\* Longest vector (n assets plus cash) the caller constructs.
MaxLen == 3

\* Number of times the caller's simulation loop moves to a next period.
MaxPeriods == 1

\* Longest list of tickers requested from fetch_returns.
MaxTickers == 2

\* Most rows (trading days) in a table the data provider delivers.
MaxRows == 2

----------------------------------------------------------------------------
(* Exact rational arithmetic. *)

Abs(i) == IF i < 0 THEN -i ELSE i

RECURSIVE GCD(_, _)
GCD(a, b) == IF b = 0 THEN a ELSE GCD(b, a % b)

\* n/d in lowest terms with a positive denominator (d # 0).
Q(n, d) ==
    LET g == GCD(Abs(n), Abs(d))
        s == IF d < 0 THEN -1 ELSE 1
    IN  <<(s * n) \div g, (s * d) \div g>>

Zero == <<0, 1>>
One == <<1, 1>>
NaN == <<0, 0>>

IsNaN(x) == x[2] = 0

RAdd(x, y) == Q(x[1] * y[2] + y[1] * x[2], x[2] * y[2])
RSub(x, y) == Q(x[1] * y[2] - y[1] * x[2], x[2] * y[2])
RMul(x, y) == Q(x[1] * y[1], x[2] * y[2])
\* x / y for y # 0.
RDiv(x, y) == Q(x[1] * y[2], x[2] * y[1])
RAbs(x) == <<Abs(x[1]), x[2]>>
RLeq(x, y) == x[1] * y[2] <= y[1] * x[2]

\* All vectors of length n over the values S.
Vectors(S, n) == [1..n -> S]

\* All vectors of length 0..MaxLen over the values S.
VectorsUpTo(S) == UNION {Vectors(S, n) : n \in 0..MaxLen}

----------------------------------------------------------------------------
(* Outcomes of a call: a returned value or a raised exception. *)

Returned(v) == [raised |-> "none", value |-> v]
Raised(e) == [raised |-> e, value |-> <<>>]

----------------------------------------------------------------------------
(* BookKeeper (bookkeeper.py). *)

\* ndarray.sum(): the elements added up from 0.
RECURSIVE NpSum(_)
NpSum(a) == IF a = <<>> THEN Zero ELSE RAdd(NpSum(SubSeq(a, 1, Len(a) - 1)), a[Len(a)])

\* np.abs(a): elementwise absolute value.
NpAbs(a) == [i \in 1..Len(a) |-> RAbs(a[i])]

\* a[:-1]: every element except the last (empty for an empty array).
AllButLast(a) == SubSeq(a, 1, Len(a) - 1)

\* Shapes (m,) and (n,) broadcast when they are equal or one of them is 1.
Broadcastable(m, n) == m = n \/ m = 1 \/ n = 1

\* Length of the broadcast of shapes (m,) and (n,).
BroadcastLen(m, n) == IF m = 1 THEN n ELSE m

\* Element i of array a broadcast to a longer shape.
At(a, i) == IF Len(a) = 1 THEN a[1] ELSE a[i]

\* Mutant: the gross value, sum of |h[i]|.
portfolio_value_gross(h) == NpSum(NpAbs(h))

portfolio_value(h) == NpSum(h)

\* Mutant: no zero-value guard, the division yields nan silently.
compute_weights_unguarded(h) ==
    LET vt == portfolio_value(h)
    IN  Returned([i \in 1..Len(h) |-> IF vt = Zero THEN NaN ELSE RDiv(h[i], vt)])

\* Mutant: holdings normalised by |v_t|.
compute_weights_abs_value(h) ==
    LET vt == portfolio_value(h)
    IN  IF vt = Zero
        THEN Raised("ValueError")
        ELSE Returned([i \in 1..Len(h) |-> RDiv(h[i], RAbs(vt))])

compute_weights(h) ==
    LET vt == portfolio_value(h)
    IN  IF vt = Zero
        THEN Raised("ValueError")
        ELSE Returned([i \in 1..Len(h) |-> RDiv(h[i], vt)])

\* Mutant: the cash weight is counted.
compute_leverage_with_cash(w) == NpSum(NpAbs(w))

\* Mutant: signed asset weights are added up.
compute_leverage_signed(w) == NpSum(AllButLast(w))

compute_leverage(w) == NpSum(NpAbs(AllButLast(w)))

\* Mutant: holdings scaled by the returns alone, h * r.
update_portfolio_no_principal(h, r) ==
    IF ~Broadcastable(Len(h), Len(r))
    THEN Raised("ValueError")
    ELSE Returned([i \in 1..BroadcastLen(Len(h), Len(r)) |->
                      RMul(At(h, i), At(r, i))])

\* Mutant: the gain is taken on the absolute position, h + |h| * r.
update_portfolio_abs_gain(h, r) ==
    IF ~Broadcastable(Len(h), Len(r))
    THEN Raised("ValueError")
    ELSE Returned([i \in 1..BroadcastLen(Len(h), Len(r)) |->
                      RAdd(At(h, i), RMul(RAbs(At(h, i)), At(r, i)))])

\* Mutant: the vectors are paired up to the shorter length.
update_portfolio_truncating(h, r) ==
    LET n == IF Len(h) < Len(r) THEN Len(h) ELSE Len(r)
    IN  Returned([i \in 1..n |-> RMul(h[i], RAdd(One, r[i]))])

update_portfolio(h, r) ==
    IF ~Broadcastable(Len(h), Len(r))
    THEN Raised("ValueError")
    ELSE Returned([i \in 1..BroadcastLen(Len(h), Len(r)) |->
                      RMul(At(h, i), RAdd(One, At(r, i)))])

\* Mutant: a zero start value raises, as compute_weights does.
portfolio_return_raising(h_t, h_t1) ==
    LET v_t == portfolio_value(h_t)
        v_t_plus_1 == portfolio_value(h_t1)
    IN  IF v_t = Zero
        THEN Raised("ValueError")
        ELSE Returned(RDiv(RSub(v_t_plus_1, v_t), v_t))

\* Mutant: the change is divided by the end value v_{t+1}.
portfolio_return_end_value(h_t, h_t1) ==
    LET v_t == portfolio_value(h_t)
        v_t_plus_1 == portfolio_value(h_t1)
    IN  IF v_t = Zero \/ v_t_plus_1 = Zero
        THEN Returned(NaN)
        ELSE Returned(RDiv(RSub(v_t_plus_1, v_t), v_t_plus_1))

portfolio_return(h_t, h_t1) ==
    LET v_t == portfolio_value(h_t)
        v_t_plus_1 == portfolio_value(h_t1)
    IN  IF v_t = Zero
        THEN Returned(NaN)
        ELSE Returned(RDiv(RSub(v_t_plus_1, v_t), v_t))

----------------------------------------------------------------------------
(* MarketData (market_data.py).                                            *)
(*                                                                         *)
(* A table (pandas DataFrame) is [columns, rows]: the column labels in     *)
(* order, and the rows in date order, each row a sequence of numbers       *)
(* aligned with the columns; a missing number is NaN.                      *)

Table(columns, rows) == [columns |-> columns, rows |-> rows]

\* DataFrame.empty: some axis has length 0.
IsEmpty(df) == Len(df.columns) = 0 \/ Len(df.rows) = 0

\* pd.DataFrame(columns=tickers)
_empty_returns(tk) == Table(tk, <<>>)

\* The ticker symbols the caller may request.
Tickers == {"AAPL", "MSFT"}

\* Date arguments: None, a malformed string and two well-formed dates.
DateInputs == {"None", "not-a-date", "2023-01-01", "2023-12-31"}

\* Day of the year of a well-formed date string.
DayOf(s) == IF s = "2023-01-01" THEN 1 ELSE 365

\* pd.to_datetime(x): NaT for None, ValueError for a string that is no
\* date, else the timestamp.
to_datetime(x) ==
    IF x = "None" THEN [raised |-> "none", nat |-> TRUE, day |-> 0]
    ELSE IF x = "not-a-date" THEN [raised |-> "ValueError", nat |-> FALSE, day |-> 0]
    ELSE [raised |-> "none", nat |-> FALSE, day |-> DayOf(x)]

\* Mutant: the date check does not compare start and end.
DatesRejected_unordered(sd, ed) ==
    LET start == to_datetime(sd)
        end == to_datetime(ed)
    IN  \/ start.raised \in {"ValueError", "TypeError"}
        \/ end.raised \in {"ValueError", "TypeError"}
        \/ start.nat
        \/ end.nat

\* Lines 67-73: TRUE when the date check returns the empty table.
DatesRejected(sd, ed) ==
    LET start == to_datetime(sd)
        end == to_datetime(ed)
    IN  \/ start.raised \in {"ValueError", "TypeError"}
        \/ end.raised \in {"ValueError", "TypeError"}
        \/ start.nat
        \/ end.nat
        \/ start.day > end.day

\* The exception classes the download's except clause names (line 85).
DownloadCaught == {"ValueError", "ConnectionError", "TimeoutError", "OSError"}

\* Exceptions the provider call may throw.
ProviderErrors == DownloadCaught \cup {"KeyError", "RuntimeError"}

\* Prices the provider delivers; NaN is a missing price.
Prices == {NaN, Q(100, 1), Q(110, 1)}

\* Sequences without repetition over S, of length n.
Distinct(S, n) == {c \in [1..n -> S] : \A i, j \in 1..n : c[i] = c[j] => i = j}

\* The tables of closing prices the provider may deliver: a frame with one
\* column per ticker it knows, in its own order, or a single unnamed series.
CloseFrames ==
    UNION {{[shape |-> "frame", columns |-> c, rows |-> r] :
              c \in Distinct(Tickers, n), r \in [1..k -> [1..n -> Prices]]} :
           n \in 1..Cardinality(Tickers), k \in 0..MaxRows}
CloseSeries ==
    UNION {{[shape |-> "series", columns |-> <<"Close">>, rows |-> r] :
              r \in [1..k -> [1..1 -> Prices]]} : k \in 0..MaxRows}

\* What yf.download may return: None, or a table with or without a Close
\* column.
Download(close, hasClose) ==
    [none |-> FALSE, hasClose |-> hasClose, close |-> close]
DownloadNone ==
    [none |-> TRUE, hasClose |-> FALSE,
     close |-> [shape |-> "frame", columns |-> <<>>, rows |-> <<>>]]
Downloads ==
    {DownloadNone}
        \cup {Download(c, TRUE) : c \in CloseFrames \cup CloseSeries}
        \cup {Download(c, FALSE) : c \in {f \in CloseSeries : Len(f.rows) <= 1}}

\* data.empty (line 89): a table without rows.
DataEmpty(d) == Len(d.close.rows) = 0

\* Column j of the rows, forward-filled up to row i: the last price at or
\* before row i that is not NaN.
RECURSIVE FilledAt(_, _, _)
FilledAt(rows, i, j) ==
    IF i = 0 THEN NaN
    ELSE IF ~IsNaN(rows[i][j]) THEN rows[i][j]
    ELSE FilledAt(rows, i - 1, j)

\* DataFrame.ffill()
ffill(df) ==
    Table(df.columns,
          [i \in 1..Len(df.rows) |-> [j \in 1..Len(df.columns) |-> FilledAt(df.rows, i, j)]])

\* p / q - 1, NaN when either price is missing.
Change(q, p) == IF IsNaN(p) \/ IsNaN(q) THEN NaN ELSE RSub(RDiv(p, q), One)

\* DataFrame.pct_change(fill_method=None): the first row is all NaN.
pct_change(df) ==
    Table(df.columns,
          [i \in 1..Len(df.rows) |->
              [j \in 1..Len(df.columns) |->
                  IF i = 1 THEN NaN ELSE Change(df.rows[i - 1][j], df.rows[i][j])]])

\* Mutant: only the rows that are NaN in every column are dropped.
dropna_all_nan(df) ==
    Table(df.columns,
          SelectSeq(df.rows, LAMBDA row : \E j \in 1..Len(row) : ~IsNaN(row[j])))

\* DataFrame.dropna(): the rows without any NaN.
dropna(df) ==
    Table(df.columns,
          SelectSeq(df.rows, LAMBDA row : \A j \in 1..Len(row) : ~IsNaN(row[j])))

\* Position of label c in the columns, 0 when absent.
IndexOf(columns, c) ==
    IF \E j \in 1..Len(columns) : columns[j] = c
    THEN CHOOSE j \in 1..Len(columns) : columns[j] = c
    ELSE 0

\* Mutant: the table is returned with the provider's own columns.
reindex_skipped(df, tk) == df

\* DataFrame.reindex(columns=tk): the columns tk in order, NaN where the
\* table has no such column.
reindex(df, tk) ==
    Table(tk,
          [i \in 1..Len(df.rows) |->
              [j \in 1..Len(tk) |->
                  IF IndexOf(df.columns, tk[j]) = 0 THEN NaN
                  ELSE df.rows[i][IndexOf(df.columns, tk[j])]]])

\* Lines 97-98: a Series becomes a one-column frame named tickers[0];
\* IndexError when the ticker list is empty.
to_frame(close, tk) ==
    IF close.shape # "series" THEN Returned(Table(close.columns, close.rows))
    ELSE IF Len(tk) = 0 THEN Raised("IndexError")
    ELSE Returned(Table(<<tk[1]>>, close.rows))

\* Lines 93-112: the returns computed from the downloaded table.
returns_from(d, tk) ==
    IF ~d.hasClose THEN Returned(_empty_returns(tk))
    ELSE LET prices == to_frame(d.close, tk)
         IN  IF prices.raised # "none" THEN prices
             ELSE LET tmp_returns == dropna(pct_change(ffill(prices.value)))
                  IN  IF IsEmpty(tmp_returns)
                      THEN Returned(_empty_returns(tk))
                      ELSE Returned(reindex(tmp_returns, tk))

----------------------------------------------------------------------------
(* The caller: the vectors it constructs and the calls it makes. *)

VARIABLES
    holdings_t,         \* holdings at the start of the period
    returns,            \* returns of the period
    holdings_t_plus_1,  \* holdings at the end of the period
    weights,            \* the weights vector the caller holds
    op,                 \* the BookKeeper method called last ("none": none yet)
    out,                \* the outcome of that call
    t,                  \* periods completed by the caller's loop
    tickers,            \* fetch_returns: the requested tickers
    start_date,         \* fetch_returns: the start date given
    end_date,           \* fetch_returns: the end date given
    pc,                 \* fetch_returns: where the call stands
    data,               \* fetch_returns: what yf.download returned
    downloads,          \* fetch_returns: calls of yf.download made
    fetched             \* fetch_returns: the outcome of the call

ledger == <<holdings_t, returns, holdings_t_plus_1, weights, op, out, t>>
fetch == <<tickers, start_date, end_date, pc, data, downloads, fetched>>
vars == <<ledger, fetch>>

\* Dollar holdings, in units of 10,000 (negative: short).
HoldingValues == {Q(-10, 1), Zero, Q(5, 1), Q(10, 1)}

\* Period returns.
ReturnValues == {Q(-1, 2), Zero, Q(1, 4)}

\* End-of-period holdings the caller observes.
NextValues == {Zero, Q(10, 1)}

\* Weights the caller passes to compute_leverage.
WeightValues == {Q(-5, 2), Zero, Q(1, 2), One}

NoCall == Returned(Zero)

\* The caller holds a portfolio and the aligned returns of the coming period.
InitRoll ==
    /\ holdings_t \in VectorsUpTo(HoldingValues)
    /\ returns \in Vectors(ReturnValues, Len(holdings_t))
    /\ holdings_t_plus_1 = holdings_t
    /\ weights = <<>>

\* The caller holds the portfolio at the start and at the end of a period.
InitSnapshots ==
    /\ holdings_t \in VectorsUpTo(HoldingValues)
    /\ holdings_t_plus_1 \in VectorsUpTo(NextValues)
    /\ returns = <<>>
    /\ weights = <<>>

\* The caller holds a weights vector only.
InitWeights ==
    /\ weights \in VectorsUpTo(WeightValues)
    /\ holdings_t = <<>>
    /\ holdings_t_plus_1 = <<>>
    /\ returns = <<>>

\* No fetch_returns call is in progress.
NoFetch ==
    /\ tickers = <<>>
    /\ start_date = "None"
    /\ end_date = "None"
    /\ pc = "idle"
    /\ data = DownloadNone
    /\ downloads = 0
    /\ fetched = NoCall

Init ==
    /\ InitRoll \/ InitSnapshots \/ InitWeights
    /\ op = "none"
    /\ out = NoCall
    /\ t = 0
    /\ NoFetch

PortfolioValue ==
    /\ op' = "portfolio_value"
    /\ out' = Returned(portfolio_value(holdings_t))
    /\ UNCHANGED <<holdings_t, returns, holdings_t_plus_1, weights, t>>
    /\ UNCHANGED fetch

ComputeWeights ==
    /\ op' = "compute_weights"
    /\ out' = compute_weights(holdings_t)
    /\ UNCHANGED <<holdings_t, returns, holdings_t_plus_1, weights, t>>
    /\ UNCHANGED fetch

ComputeLeverage ==
    /\ op' = "compute_leverage"
    /\ out' = Returned(compute_leverage(weights))
    /\ UNCHANGED <<holdings_t, returns, holdings_t_plus_1, weights, t>>
    /\ UNCHANGED fetch

\* Mutant: the update is made in place, holdings *= 1 + returns, and the
\* argument itself is returned.
UpdatePortfolio_in_place ==
    LET res == update_portfolio(holdings_t, returns)
    IN  /\ op' = "update_portfolio"
        /\ out' = res
        /\ holdings_t' = IF res.raised = "none" THEN res.value ELSE holdings_t
        /\ holdings_t_plus_1' = IF res.raised = "none" THEN res.value ELSE holdings_t_plus_1
        /\ UNCHANGED <<returns, weights, t>>
        /\ UNCHANGED fetch

\* h1 = bk.update_portfolio(h0, r): the caller keeps h1 unless the call raised.
UpdatePortfolio ==
    LET res == update_portfolio(holdings_t, returns)
    IN  /\ op' = "update_portfolio"
        /\ out' = res
        /\ holdings_t_plus_1' = IF res.raised = "none" THEN res.value ELSE holdings_t_plus_1
        /\ UNCHANGED <<holdings_t, returns, weights, t>>
        /\ UNCHANGED fetch

PortfolioReturn ==
    /\ op' = "portfolio_return"
    /\ out' = portfolio_return(holdings_t, holdings_t_plus_1)
    /\ UNCHANGED <<holdings_t, returns, holdings_t_plus_1, weights, t>>
    /\ UNCHANGED fetch

\* The caller's loop (h1 = update_portfolio(h0, r), then
\* portfolio_return(h0, h1)) moves to the next period unless portfolio_return
\* raised: the end-of-period holdings become the start-of-period holdings.
NextPeriod ==
    /\ t < MaxPeriods
    /\ update_portfolio(holdings_t, returns) = Returned(holdings_t_plus_1)
    /\ op = "portfolio_return"
    /\ out.raised = "none"
    /\ t' = t + 1
    /\ holdings_t' = holdings_t_plus_1
    /\ op' = "none"
    /\ out' = NoCall
    /\ UNCHANGED <<returns, holdings_t_plus_1, weights>>
    /\ UNCHANGED fetch

Next ==
    \/ PortfolioValue
    \/ ComputeWeights
    \/ ComputeLeverage
    \/ UpdatePortfolio
    \/ PortfolioReturn
    \/ NextPeriod

Spec == Init /\ [][Next]_vars

----------------------------------------------------------------------------
(* The caller of fetch_returns. *)

\* The caller is about to call fetch_returns(tickers, start_date, end_date).
FetchInit ==
    /\ \/ tickers \in UNION {[1..n -> Tickers] : n \in 1..MaxTickers}
       \/ tickers = <<>>
    /\ start_date \in DateInputs
    /\ end_date \in DateInputs
    /\ pc = "dates"
    /\ data = DownloadNone
    /\ downloads = 0
    /\ fetched = NoCall
    /\ holdings_t = <<>>
    /\ returns = <<>>
    /\ holdings_t_plus_1 = <<>>
    /\ weights = <<>>
    /\ op = "none"
    /\ out = NoCall
    /\ t = 0

\* Lines 64-73: the date check.
CheckDates ==
    /\ pc = "dates"
    /\ IF DatesRejected(start_date, end_date)
       THEN /\ fetched' = Returned(_empty_returns(tickers))
            /\ pc' = "done"
       ELSE /\ pc' = "download"
            /\ UNCHANGED fetched
    /\ UNCHANGED <<tickers, start_date, end_date, data, downloads>>
    /\ UNCHANGED ledger

\* Lines 76-86: yf.download throws e.
DownloadRaises(e) ==
    /\ pc = "download"
    /\ downloads' = downloads + 1
    /\ fetched' = IF e \in DownloadCaught
                  THEN Returned(_empty_returns(tickers))
                  ELSE Raised(e)
    /\ pc' = "done"
    /\ UNCHANGED <<tickers, start_date, end_date, data>>
    /\ UNCHANGED ledger

\* Lines 76-112: yf.download returns d, and the call completes with the
\* empty table or with the returns computed from d.
DownloadReturns(d) ==
    /\ pc = "download"
    /\ downloads' = downloads + 1
    /\ data' = d
    /\ fetched' = IF d.none \/ DataEmpty(d)
                  THEN Returned(_empty_returns(tickers))
                  ELSE returns_from(d, tickers)
    /\ pc' = "done"
    /\ UNCHANGED <<tickers, start_date, end_date>>
    /\ UNCHANGED ledger

FetchNext ==
    \/ CheckDates
    \/ \E e \in ProviderErrors : DownloadRaises(e)
    \/ \E d \in Downloads : DownloadReturns(d)

FetchSpec == FetchInit /\ [][FetchNext]_vars

----------------------------------------------------------------------------
(* The caller passes vectors whose lengths are unrelated. *)

\* The caller holds a portfolio and a returns vector of any length.
InitAnyReturns ==
    /\ holdings_t \in VectorsUpTo(HoldingValues)
    /\ returns \in VectorsUpTo(ReturnValues)
    /\ holdings_t_plus_1 = holdings_t
    /\ weights = <<>>

UnalignedInit ==
    /\ InitAnyReturns \/ InitSnapshots
    /\ op = "none"
    /\ out = NoCall
    /\ t = 0
    /\ NoFetch

UnalignedNext ==
    \/ UpdatePortfolio
    \/ PortfolioReturn

UnalignedSpec == UnalignedInit /\ [][UnalignedNext]_vars

----------------------------------------------------------------------------
(* Vocabulary of the properties, written independently of the operators    *)
(* above: sums run from the head of the vector or over its indices.        *)

\* Sum of the elements of v.
RECURSIVE Total(_)
Total(v) == IF v = <<>> THEN Zero ELSE RAdd(Head(v), Total(Tail(v)))

\* Sum of |w[i]| for i in 1..k.
RECURSIVE AbsSumTo(_, _)
AbsSumTo(w, k) == IF k = 0 THEN Zero ELSE RAdd(AbsSumTo(w, k - 1), RAbs(w[k]))

\* Sum of w[i] * r[i] for i in 1..k.
RECURSIVE DotTo(_, _, _)
DotTo(w, r, k) == IF k = 0 THEN Zero ELSE RAdd(DotTo(w, r, k - 1), RMul(w[k], r[k]))

RLess(x, y) == x[1] * y[2] < y[1] * x[2]

Vec(ints) == [i \in 1..Len(ints) |-> Q(ints[i], 1)]

----------------------------------------------------------------------------
(* Properties. *)

\* C1: whenever the elements of h sum to exactly 0, compute_weights(h) raises
\* ValueError and returns no weights vector.
C1_ZeroValueRaises ==
    (op = "compute_weights" /\ Total(holdings_t) = Zero)
        => out = Raised("ValueError")

\* C1 witness: compute_weights([10, -10]) has raised ValueError.
C1_Witness ==
    /\ op = "compute_weights"
    /\ holdings_t = Vec(<<10, -10>>)
    /\ out.raised = "ValueError"

\* C2: whenever value(h) # 0 (negative totals included), compute_weights(h)
\* returns w of the length of h with w[i] = h[i] / value(h), and the elements
\* of w sum to 1.
C2_WeightsSumToOne ==
    (op = "compute_weights" /\ Total(holdings_t) # Zero)
        => /\ out.raised = "none"
           /\ Len(out.value) = Len(holdings_t)
           /\ \A i \in 1..Len(holdings_t) :
                 /\ ~IsNaN(out.value[i])
                 /\ RMul(out.value[i], Total(holdings_t)) = holdings_t[i]
           /\ Total(out.value) = One

\* C2 witness: compute_weights([5, -10, 0]), of total value -5, has returned
\* [-1, 2, 0].
C2_Witness ==
    /\ op = "compute_weights"
    /\ holdings_t = Vec(<<5, -10, 0>>)
    /\ out = Returned(Vec(<<-1, 2, 0>>))

\* C3: portfolio_return never raises, and whenever value(h_t) = 0 it returns
\* nan whatever h_t1 is; so the caller's loop is not halted by it.
C3_ZeroValueReturnsNaN ==
    op = "portfolio_return"
        => /\ out.raised = "none"
           /\ Total(holdings_t) = Zero => out = Returned(NaN)

\* C3 witness: in the second period of a loop that started from [10, -10]
\* with zero returns (so the first period's return was nan too),
\* portfolio_return has returned nan again.
C3_Witness ==
    /\ t = 1
    /\ op = "portfolio_return"
    /\ holdings_t = Vec(<<10, -10>>)
    /\ returns = Vec(<<0, 0>>)
    /\ out = Returned(NaN)

\* C4: whenever v_t = value(h_t) # 0, portfolio_return returns exactly
\* (v_t1 - v_t) / v_t: 0 when h_t1 = h_t, signed and not clamped to [-1, 1].
C4_ReturnIsRelativeChange ==
    (op = "portfolio_return" /\ Total(holdings_t) # Zero)
        => /\ out = Returned(RDiv(RSub(Total(holdings_t_plus_1), Total(holdings_t)),
                                  Total(holdings_t)))
           /\ holdings_t_plus_1 = holdings_t => out = Returned(Zero)

\* C4 witness: from [-10, 5] (value -5) to [10, 10] (value 20) the return
\* is -5, below -1.
C4_Witness ==
    /\ op = "portfolio_return"
    /\ holdings_t = Vec(<<-10, 5>>)
    /\ holdings_t_plus_1 = Vec(<<10, 10>>)
    /\ out = Returned(Q(-5, 1))

\* The end-of-period holdings are update_portfolio(holdings_t, returns).
RolledForward ==
    /\ Len(holdings_t) = Len(returns)
    /\ update_portfolio(holdings_t, returns) = Returned(holdings_t_plus_1)

\* C5: whenever value(h) # 0 and r has the length of h,
\* portfolio_return(h, update_portfolio(h, r)) is the sum of
\* compute_weights(h)[i] * r[i].
C5_RoundTrip ==
    (op = "portfolio_return" /\ Total(holdings_t) # Zero /\ RolledForward)
        => out = Returned(DotTo(compute_weights(holdings_t).value, returns,
                                Len(returns)))

\* C5 witness: h = [10, 5, 0], r = [1/4, 0, 0] roll forward to [25/2, 5, 0]
\* and the return is 1/6 = 2/3 * 1/4.
C5_Witness ==
    /\ op = "portfolio_return"
    /\ holdings_t = Vec(<<10, 5, 0>>)
    /\ returns = <<Q(1, 4), Zero, Zero>>
    /\ holdings_t_plus_1 = <<Q(25, 2), Q(5, 1), Zero>>
    /\ out = Returned(Q(1, 6))

\* C6: for w of length >= 1, compute_leverage(w) is the sum of |w[i]| over
\* all indices except the last; a length-1 vector yields 0.
C6_LeverageExcludesCash ==
    (op = "compute_leverage" /\ Len(weights) >= 1)
        => /\ out = Returned(AbsSumTo(weights, Len(weights) - 1))
           /\ Len(weights) = 1 => out = Returned(Zero)

\* C6 witness: compute_leverage([-5/2, 1/2, 1]) has returned 3.
C6_Witness ==
    /\ op = "compute_leverage"
    /\ weights = <<Q(-5, 2), Q(1, 2), One>>
    /\ out = Returned(Q(3, 1))

\* C7: compute_leverage(w) >= 0, and it is 0 whenever every element except
\* the last is 0.
C7_LeverageNonNegative ==
    op = "compute_leverage"
        => /\ out.raised = "none"
           /\ RLeq(Zero, out.value)
           /\ (\A i \in 1..(Len(weights) - 1) : weights[i] = Zero)
                 => out.value = Zero

\* C7 witness: compute_leverage([0, 0, -5/2]), pure (negative) cash, has
\* returned 0.
C7_Witness ==
    /\ op = "compute_leverage"
    /\ weights = <<Zero, Zero, Q(-5, 2)>>
    /\ out = Returned(Zero)

\* C8: for h and r of equal length, update_portfolio(h, r) does not fail and
\* returns h' of that length with h'[i] = h[i] * (1 + r[i]): a zero return
\* leaves the position unchanged, and a short position with a positive
\* return becomes more negative.
C8_UpdateIsElementwise ==
    (op = "update_portfolio" /\ Len(holdings_t) = Len(returns))
        => /\ out.raised = "none"
           /\ Len(out.value) = Len(holdings_t)
           /\ \A i \in 1..Len(holdings_t) :
                 /\ out.value[i] = RMul(holdings_t[i], RAdd(One, returns[i]))
                 /\ returns[i] = Zero => out.value[i] = holdings_t[i]
                 /\ (RLess(holdings_t[i], Zero) /\ RLess(Zero, returns[i]))
                       => RLess(out.value[i], holdings_t[i])

\* C8 witness: update_portfolio([-10, 5], [1/4, 0]) has returned [-25/2, 5].
C8_Witness ==
    /\ op = "update_portfolio"
    /\ holdings_t = Vec(<<-10, 5>>)
    /\ returns = <<Q(1, 4), Zero>>
    /\ out = Returned(<<Q(-25, 2), Q(5, 1)>>)

\* C9: portfolio_value(h) does not fail and returns the sum of all elements
\* of h, negative elements included; the empty vector yields 0.
C9_ValueIsSum ==
    op = "portfolio_value"
        => /\ out = Returned(Total(holdings_t))
           /\ holdings_t = <<>> => out = Returned(Zero)

\* C9 witness: portfolio_value([-10, 5, 0]) has returned -5.
C9_Witness ==
    /\ op = "portfolio_value"
    /\ holdings_t = Vec(<<-10, 5, 0>>)
    /\ out = Returned(Q(-5, 1))

\* No table of prices was acquired: the dates were rejected, the download
\* threw or returned None, or the table has no rows or no Close column.
AcquisitionFailed ==
    \/ DatesRejected(start_date, end_date)
    \/ data.none
    \/ DataEmpty(data)
    \/ ~data.hasClose

\* C10: fetch_returns never raises, whatever the tickers, the dates and the
\* outcome of the provider download are, and on every acquisition error it
\* returns the zero-row table whose columns are the requested tickers.
C10_FetchNeverRaises ==
    pc = "done"
        => /\ fetched.raised = "none"
           /\ AcquisitionFailed => fetched = Returned(Table(tickers, <<>>))

\* C11: whenever fetch_returns returns, with or without rows, the columns of
\* the table are exactly the requested tickers, one per ticker, in the
\* requested order, whatever columns the provider delivered.
C11_ColumnsAreTickers ==
    (pc = "done" /\ fetched.raised = "none")
        => /\ fetched.value.columns = tickers
           /\ \A i \in 1..Len(fetched.value.rows) :
                 Len(fetched.value.rows[i]) = Len(tickers)

\* C11 witness: AAPL, MSFT were requested, the provider delivered the columns
\* MSFT, AAPL, and the returned table has a row.
C11_Witness ==
    /\ pc = "done"
    /\ tickers = <<"AAPL", "MSFT">>
    /\ data.hasClose
    /\ data.close.columns = <<"MSFT", "AAPL">>
    /\ fetched.raised = "none"
    /\ fetched.value.columns = <<"AAPL", "MSFT">>
    /\ Len(fetched.value.rows) = 1

\* The dates as the caller sees them: the start is after the end, or one of
\* them is unparseable or missing.
BadDates ==
    \/ start_date \in {"None", "not-a-date"}
    \/ end_date \in {"None", "not-a-date"}
    \/ (start_date = "2023-12-31" /\ end_date = "2023-01-01")

\* C12: with a start after the end, or a date unparseable or missing,
\* fetch_returns returns the zero-row table with the requested ticker
\* columns, and no provider download is attempted.
C12_BadDatesRejectedFirst ==
    BadDates
        => /\ pc # "download"
           /\ downloads = 0
           /\ pc = "done" => fetched = Returned(Table(tickers, <<>>))

\* C12 witness: the call with the inverted range 2023-12-31 .. 2023-01-01 has
\* returned the zero-row table without a download.
C12_Witness ==
    /\ pc = "done"
    /\ tickers = <<"AAPL">>
    /\ start_date = "2023-12-31"
    /\ end_date = "2023-01-01"
    /\ downloads = 0
    /\ fetched = Returned(Table(<<"AAPL">>, <<>>))

\* What the provider delivered, seen from outside fetch_returns: a Close
\* table came back, its columns (a bare Series stands for the first requested
\* ticker), and the price of ticker c in row k.
Delivered == ~data.none /\ data.hasClose
DeliveredColumns ==
    IF data.close.shape = "series" THEN <<tickers[1]>> ELSE data.close.columns
IsDelivered(c) ==
    /\ Delivered
    /\ \E j \in 1..Len(DeliveredColumns) : DeliveredColumns[j] = c
PriceAt(c, k) ==
    data.close.rows[k][CHOOSE j \in 1..Len(DeliveredColumns) : DeliveredColumns[j] = c]

\* The provider delivered no price at all for ticker c.
NoPrices(c) ==
    \/ ~IsDelivered(c)
    \/ \A k \in 1..Len(data.close.rows) : IsNaN(PriceAt(c, k))

\* The latest price of c known at row k, NaN when there is none yet.
LastPrice(c, k) ==
    LET known == {m \in 1..k : ~IsNaN(PriceAt(c, m))}
    IN  IF known = {} THEN NaN
        ELSE PriceAt(c, CHOOSE m \in known : \A x \in known : x <= m)

\* The relative change of the latest known price of c from row k - 1 to row k.
ReturnAt(c, k) ==
    LET p == LastPrice(c, k - 1)
        q == LastPrice(c, k)
    IN  IF IsNaN(p) \/ IsNaN(q) THEN NaN ELSE RDiv(RSub(q, p), p)

\* Some row of the delivered table carries a return of ticker c.
HasReturns(c) ==
    /\ IsDelivered(c)
    /\ \E k \in 2..Len(data.close.rows) : ~IsNaN(ReturnAt(c, k))

\* C13: over a valid date range, when the provider has no price for at least
\* one requested ticker (all of them, or some next to tickers with prices),
\* fetch_returns returns the zero-row table with the requested columns and
\* raises nothing.
C13_UnknownTickerGivesEmpty ==
    (/\ pc = "done"
     /\ ~BadDates
     /\ \E i \in 1..Len(tickers) : NoPrices(tickers[i]))
        => fetched = Returned(Table(tickers, <<>>))

\* The rows of the delivered table, after the first, in which every delivered
\* column carries a return.
KeptRows ==
    LET Complete(k) ==
            \A j \in 1..Len(DeliveredColumns) : ~IsNaN(ReturnAt(DeliveredColumns[j], k))
    IN  SelectSeq([i \in 1..(Len(data.close.rows) - 1) |-> i + 1], Complete)

\* The returns table expected from the delivered prices: one row per kept
\* row, NaN for a requested ticker the provider's table has no column for.
ExpectedRows ==
    [n \in 1..Len(KeptRows) |->
        [i \in 1..Len(tickers) |->
            IF IsDelivered(tickers[i]) THEN ReturnAt(tickers[i], KeptRows[n])
            ELSE NaN]]

\* A Close table was delivered and fetch_returns has returned.
ReturnedFromPrices ==
    /\ pc = "done"
    /\ fetched.raised = "none"
    /\ Delivered
    /\ Len(tickers) > 0

MismatchedUpdate ==
    op = "update_portfolio" /\ Len(holdings_t) # Len(returns)
MismatchedReturn ==
    op = "portfolio_return" /\ Len(holdings_t) # Len(holdings_t_plus_1)

\* C14 as stated: update_portfolio and portfolio_return given vectors of
\* different lengths fail instead of returning a result.
C14_MismatchFails ==
    (MismatchedUpdate \/ MismatchedReturn) => out.raised # "none"

\* C14: with different lengths update_portfolio raises ValueError unless one
\* vector has length 1, whose element is then applied to every element of
\* the other; portfolio_return does not fail and returns the relative change
\* of the two sums over all elements, NaN on a zero start value.
C14_MismatchOutcome ==
    /\ MismatchedUpdate
        => IF Len(holdings_t) = 1
           THEN out = Returned([i \in 1..Len(returns) |->
                         RAdd(holdings_t[1], RMul(holdings_t[1], returns[i]))])
           ELSE IF Len(returns) = 1
           THEN out = Returned([i \in 1..Len(holdings_t) |->
                         RAdd(holdings_t[i], RMul(holdings_t[i], returns[1]))])
           ELSE out = Raised("ValueError")
    /\ MismatchedReturn
        => out = Returned(IF Total(holdings_t) = Zero THEN NaN
                          ELSE RDiv(RSub(Total(holdings_t_plus_1), Total(holdings_t)),
                                    Total(holdings_t)))

\* C14 witness: update_portfolio([10, 5], [1/4]) has returned [25/2, 25/4].
C14_Witness ==
    /\ op = "update_portfolio"
    /\ holdings_t = Vec(<<10, 5>>)
    /\ returns = <<Q(1, 4)>>
    /\ out = Returned(<<Q(25, 2), Q(25, 4)>>)

\* The outcome of repeating the last call on the vectors the caller holds.
Repeated ==
    CASE op = "portfolio_value" -> Returned(portfolio_value(holdings_t))
      [] op = "compute_weights" -> compute_weights(holdings_t)
      [] op = "compute_leverage" -> Returned(compute_leverage(weights))
      [] op = "update_portfolio" -> update_portfolio(holdings_t, returns)
      [] op = "portfolio_return" -> portfolio_return(holdings_t, holdings_t_plus_1)
      [] OTHER -> out

\* C16: a call of any BookKeeper operation, raising or returning NaN
\* included, leaves every vector it was given as it was (only the caller's
\* h1 = update_portfolio(h0, r) receives the new vector), and repeating the
\* call on the same vectors gives the outcome it just gave.
C16_NoSideEffects ==
    /\ [][op' # "none"
             => /\ holdings_t' = holdings_t
                /\ returns' = returns
                /\ weights' = weights
                /\ op' # "update_portfolio" => holdings_t_plus_1' = holdings_t_plus_1
                /\ op' = "update_portfolio" /\ out'.raised = "none"
                      => holdings_t_plus_1' = out'.value]_vars
    /\ [](out = Repeated)

\* C16 witness: in the second period update_portfolio([25/2, 5], [1/4, 0])
\* has returned [125/8, 5], and the caller's vectors still hold their values.
C16_Witness ==
    /\ t = 1
    /\ op = "update_portfolio"
    /\ holdings_t = <<Q(25, 2), Q(5, 1)>>
    /\ returns = <<Q(1, 4), Zero>>
    /\ out = Returned(<<Q(125, 8), Q(5, 1)>>)
    /\ out.value # holdings_t

====
